---- MODULE Spec2Model ----
(***************************************************************************)
(* A model of vk-playground (src/main.rs, src/vk_mem.rs,                   *)
(* src/safe_create.rs): the device and queue-family selection, the swap    *)
(* configuration negotiation, and the lifetime of the native handles that  *)
(* main acquires and releases.                                             *)
(*                                                                         *)
(* Rust semantics the model relies on:                                     *)
(*   - locals of a block are dropped in reverse order of declaration, the  *)
(*     bindings of one pattern counting as declared left to right;         *)
(*   - a Vec drops its elements from the first to the last;                *)
(*   - a failed unwrap/expect/assert panics; the panic unwinds, dropping   *)
(*     the live locals of every open block, innermost block first, and the *)
(*     rest of main is not executed;                                       *)
(*   - iterator adaptors are lazy: one device goes through the whole       *)
(*     chain before the next one is looked at.                             *)
(***************************************************************************)
EXTENDS Integers, Sequences, FiniteSets, TLC

VARIABLES pc, log, scopes, devices, sel, images, frames, image_idx, gpu, arg, ret

vars == <<pc, log, scopes, devices, sel, images, frames, image_idx, gpu, arg, ret>>

(***************************************************************************)
(* Bounds of the model.                                                    *)
(***************************************************************************)
MaxDevices == 2
MaxFamilies == 3
MaxExts == 2
MaxImages == 3
MaxFrames == 2
MaxExtent == 3
MaxFormats == 3
MaxModes == 3
MaxReads == 3
MaxWrites == 1
\* the model's stand-in for std::u32::MAX, the "unconstrained" extent sentinel
UMax == 5

(***************************************************************************)
(* Results of operations that can panic, and options.                      *)
(***************************************************************************)
None == [some |-> FALSE]
Some(v) == [some |-> TRUE, v |-> v]

Ok(v) == [panic |-> FALSE, v |-> v]
Panicked == [panic |-> TRUE]

SetMin(S) == CHOOSE x \in S : \A y \in S : x <= y

RECURSIVE SeqsUpTo(_, _)
SeqsUpTo(S, n) ==
    IF n = 0 THEN {<<>>}
    ELSE LET shorter == SeqsUpTo(S, n - 1)
         IN  shorter \cup {Append(s, x) : s \in {t \in shorter : Len(t) = n - 1}, x \in S}

(***************************************************************************)
(* Queue families (main.rs 350-371).                                       *)
(***************************************************************************)
QUEUE_GRAPHICS_BIT == "GRAPHICS"
QUEUE_COMPUTE_BIT == "COMPUTE"
QUEUE_TRANSFER_BIT == "TRANSFER"

\* ash's flag test `a.subset(b)`: every bit of b is set in a
subset_Reversed(self, other) == self \subseteq other

subset(self, other) == other \subseteq self

\* the indices 0..n-1 of the families that pass the graphics filter
gfx_families(queue_families) ==
    {idx \in 0..(Len(queue_families) - 1) :
        /\ queue_families[idx + 1].queue_count > 0
        /\ subset(queue_families[idx + 1].queue_flags, {QUEUE_GRAPHICS_BIT})}

\* get_physical_device_surface_support_khr(dev, idx, surface), per index
presentation_families(queue_families) ==
    {idx \in 0..(Len(queue_families) - 1) : queue_families[idx + 1].present}

\* BTreeSet::intersection(..).next(): the smallest common index
first_common_SmallestEach(gfx, pres) ==
    IF gfx \cap pres = {} THEN None
    ELSE Some([graphics |-> SetMin(gfx), presentation |-> SetMin(pres)])

first_common(gfx, pres) ==
    IF gfx \cap pres = {} THEN None
    ELSE Some([graphics |-> SetMin(gfx \cap pres), presentation |-> SetMin(gfx \cap pres)])

\* the or_else branch: the first of each set, or nothing
split_pair_Swapped(gfx, pres) ==
    IF gfx # {} /\ pres # {}
    THEN Some([graphics |-> SetMin(pres), presentation |-> SetMin(gfx)])
    ELSE None

split_pair(gfx, pres) ==
    IF gfx # {} /\ pres # {}
    THEN Some([graphics |-> SetMin(gfx), presentation |-> SetMin(pres)])
    ELSE None

\* the first flat_map closure of the selection chain
select_families(queue_families) ==
    LET gfx == gfx_families(queue_families)
        pres == presentation_families(queue_families)
        both == first_common(gfx, pres)
    IN  IF both.some THEN both ELSE split_pair(gfx, pres)

(***************************************************************************)
(* Results of driver calls (VkResult) and unwrap.                          *)
(***************************************************************************)
VkOk(v) == [ok |-> TRUE, v |-> v]
VkErr(e) == [ok |-> FALSE, e |-> e]

unwrap(r) == IF r.ok THEN Ok(r.v) ELSE Panicked

(***************************************************************************)
(* check_physical_device_extension_support (main.rs 126-138).              *)
(***************************************************************************)
VK_KHR_SWAPCHAIN_EXTENSION_NAME == "VK_KHR_swapchain"

REQUIRED_EXTENSIONS == <<VK_KHR_SWAPCHAIN_EXTENSION_NAME>>

ExtensionNames == {VK_KHR_SWAPCHAIN_EXTENSION_NAME, "vk_khr_swapchain", "VK_EXT_debug_marker"}

ToLower(name) ==
    CASE name = "VK_KHR_swapchain" -> "vk_khr_swapchain"
      [] name = "VK_EXT_debug_marker" -> "vk_ext_debug_marker"
      [] OTHER -> name

\* equality of two CStr: the same bytes
cstr_eq_IgnoreCase(a, b) == ToLower(a) = ToLower(b)

cstr_eq(a, b) == a = b

\* Vec::contains
contains(v, x) == \E j \in 1..Len(v) : cstr_eq(v[j], x)

\* enumerated: the VkResult of enumerate_device_extension_properties(device)
check_physical_device_extension_support(enumerated, required_extensions) ==
    LET available_extensions == unwrap(enumerated)
    IN  IF available_extensions.panic THEN Panicked
        ELSE Ok(\A i \in 1..Len(required_extensions) :
                    contains(available_extensions.v, required_extensions[i]))

(***************************************************************************)
(* Swap configuration negotiation (main.rs 140-230).                       *)
(***************************************************************************)
PREFERRED_FORMAT == [format |-> "R8g8b8a8Unorm", color_space |-> "SrgbNonlinear"]

\* Bounded::bounded: assert!(min < max), then the clamp
bounded(self, min, max) ==
    IF ~(min < max) THEN Panicked
    ELSE IF self < min THEN Ok(min)
    ELSE IF self > max THEN Ok(max)
    ELSE Ok(self)

\* the answers of all three queries as one snapshot
SwapChainSupportDetails(queries) ==
    [capabilities |-> queries.capabilities.v,
     formats |-> queries.formats.v,
     present_modes |-> queries.present_modes.v]

SwapChainSupportDetails_new_LastError(queries) ==
    IF ~queries.present_modes.ok
    THEN [result |-> VkErr(queries.present_modes.e),
          issued |-> <<"capabilities", "formats", "present_modes">>]
    ELSE IF ~queries.formats.ok
    THEN [result |-> VkErr(queries.formats.e),
          issued |-> <<"capabilities", "formats", "present_modes">>]
    ELSE IF ~queries.capabilities.ok
    THEN [result |-> VkErr(queries.capabilities.e),
          issued |-> <<"capabilities", "formats", "present_modes">>]
    ELSE [result |-> VkOk(SwapChainSupportDetails(queries)),
          issued |-> <<"capabilities", "formats", "present_modes">>]

\* SwapChainSupportDetails::new: three queries, try! on each in turn.  queries holds
\* the answer the driver gives to each query if asked; issued lists the queries made.
SwapChainSupportDetails_new(queries) ==
    IF ~queries.capabilities.ok
    THEN [result |-> VkErr(queries.capabilities.e), issued |-> <<"capabilities">>]
    ELSE IF ~queries.formats.ok
    THEN [result |-> VkErr(queries.formats.e), issued |-> <<"capabilities", "formats">>]
    ELSE IF ~queries.present_modes.ok
    THEN [result |-> VkErr(queries.present_modes.e),
          issued |-> <<"capabilities", "formats", "present_modes">>]
    ELSE [result |-> VkOk(SwapChainSupportDetails(queries)),
          issued |-> <<"capabilities", "formats", "present_modes">>]

choose_format_SentinelNeedsColorSpace(formats) ==
    IF /\ Len(formats) = 1
       /\ formats[1].format = "Undefined"
       /\ formats[1].color_space = PREFERRED_FORMAT.color_space
    THEN Some(PREFERRED_FORMAT)
    ELSE LET found == {i \in 1..Len(formats) :
                          /\ formats[i].format = PREFERRED_FORMAT.format
                          /\ formats[i].color_space = PREFERRED_FORMAT.color_space}
         IN  IF found # {} THEN Some(formats[SetMin(found)])
             ELSE IF Len(formats) > 0 THEN Some(formats[1])
             ELSE None

choose_format_FormatOnly(formats) ==
    IF Len(formats) = 1 /\ formats[1].format = "Undefined"
    THEN Some(PREFERRED_FORMAT)
    ELSE LET found == {i \in 1..Len(formats) :
                          formats[i].format = PREFERRED_FORMAT.format}
         IN  IF found # {} THEN Some(formats[SetMin(found)])
             ELSE IF Len(formats) > 0 THEN Some(formats[1])
             ELSE None

choose_format(formats) ==
    IF Len(formats) = 1 /\ formats[1].format = "Undefined"
    THEN Some(PREFERRED_FORMAT)
    ELSE LET found == {i \in 1..Len(formats) :
                          /\ formats[i].format = PREFERRED_FORMAT.format
                          /\ formats[i].color_space = PREFERRED_FORMAT.color_space}
         IN  IF found # {} THEN Some(formats[SetMin(found)])
             ELSE IF Len(formats) > 0 THEN Some(formats[1])
             ELSE None

\* the derived ordering of the PresentModeKHR enum: its discriminants
PresentModeOrd(mode) ==
    CASE mode = "Immediate" -> 0
      [] mode = "Mailbox" -> 1
      [] mode = "Fifo" -> 2
      [] mode = "FifoRelaxed" -> 3

choose_present_mode_Min(present_modes) ==
    IF Len(present_modes) = 0 THEN None
    ELSE LET best == CHOOSE i \in 1..Len(present_modes) :
                        \A j \in 1..Len(present_modes) :
                            PresentModeOrd(present_modes[i]) <= PresentModeOrd(present_modes[j])
         IN  Some(present_modes[best])

choose_present_mode(present_modes) ==
    IF Len(present_modes) = 0 THEN None
    ELSE LET best == CHOOSE i \in 1..Len(present_modes) :
                        \A j \in 1..Len(present_modes) :
                            PresentModeOrd(present_modes[j]) <= PresentModeOrd(present_modes[i])
         IN  Some(present_modes[best])

choose_swap_extent_HeightTest(capabilities, hint) ==
    IF capabilities.current_extent.height # UMax
    THEN Ok(capabilities.current_extent)
    ELSE LET width == bounded(hint.width, capabilities.min_image_extent.width,
                              capabilities.max_image_extent.width)
             height == bounded(hint.height, capabilities.min_image_extent.height,
                               capabilities.max_image_extent.height)
         IN  IF width.panic \/ height.panic THEN Panicked
             ELSE Ok([width |-> width.v, height |-> height.v])

\* hint: window.get_size()
choose_swap_extent(capabilities, hint) ==
    IF capabilities.current_extent.width # UMax
    THEN Ok(capabilities.current_extent)
    ELSE LET width == bounded(hint.width, capabilities.min_image_extent.width,
                              capabilities.max_image_extent.width)
             height == bounded(hint.height, capabilities.min_image_extent.height,
                               capabilities.max_image_extent.height)
         IN  IF width.panic \/ height.panic THEN Panicked
             ELSE Ok([width |-> width.v, height |-> height.v])

\* The u32 sum a + b.  An overflow panics in a build with overflow checks (the debug
\* profile) and wraps in a build without them (the release profile).
u32_add(a, b, overflow_checks) ==
    IF a + b <= UMax THEN Ok(a + b)
    ELSE IF overflow_checks THEN Panicked
    ELSE Ok((a + b) % (UMax + 1))

triple_buffer_image_count_AlwaysBounded(capabilities, overflow_checks) ==
    LET image_count == u32_add(capabilities.min_image_count, 1, overflow_checks)
    IN  IF image_count.panic THEN Panicked
        ELSE IF capabilities.max_image_count >= 0
        THEN IF image_count.v > capabilities.max_image_count
             THEN Ok(capabilities.max_image_count) ELSE image_count
        ELSE image_count

triple_buffer_image_count(capabilities, overflow_checks) ==
    LET image_count == u32_add(capabilities.min_image_count, 1, overflow_checks)
    IN  IF image_count.panic THEN Panicked
        ELSE IF capabilities.max_image_count > 0
        THEN bounded(image_count.v, capabilities.min_image_count,
                     capabilities.max_image_count)
        ELSE image_count

(***************************************************************************)
(* The device selection chain (main.rs 346-390).                           *)
(***************************************************************************)
\* the predicate of find
is_suitable(dev) ==
    dev.device_type = "DiscreteGpu" /\ dev.geometry_shader # 0

Skip == [tag |-> "skip"]
Abort(at) == [tag |-> "panic", at |-> at]

\* One element of devices.into_iter() taken through flat_map, filter, flat_map and
\* find: it is found, skipped, or a panic ends the whole selection.
eval_device(dev, d, hint, overflow_checks) ==
    LET families == select_families(dev.queue_families)
    IN
    IF ~families.some THEN Skip
    ELSE
    LET supported == check_physical_device_extension_support(dev.extensions, REQUIRED_EXTENSIONS)
    IN
    IF supported.panic THEN Abort("enumerate_device_extension_properties")
    ELSE IF ~supported.v THEN Skip
    ELSE
    LET details == unwrap(SwapChainSupportDetails_new(dev.surface).result)
    IN
    IF details.panic THEN Abort("SwapChainSupportDetails::new")
    ELSE
    LET format == choose_format(details.v.formats)
        present_mode == choose_present_mode(details.v.present_modes)
    IN
    IF ~format.some \/ ~present_mode.some THEN Skip
    ELSE
    LET swap_extent == choose_swap_extent(details.v.capabilities, hint)
    IN
    IF swap_extent.panic THEN Abort("choose_swap_extent")
    ELSE
    LET swap_image_count == triple_buffer_image_count(details.v.capabilities, overflow_checks)
    IN
    IF swap_image_count.panic THEN Abort("triple_buffer_image_count")
    ELSE IF is_suitable(dev)
    THEN [tag |-> "found",
          device |-> d,
          graphics_family_idx |-> families.v.graphics,
          presentation_family_idx |-> families.v.presentation,
          surface_format |-> format.v,
          present_mode |-> present_mode.v,
          swap_extent |-> swap_extent.v,
          swap_image_count |-> swap_image_count.v]
    ELSE Skip

\* the lazy chain over the enumeration, from its d-th device on
RECURSIVE find_device(_, _, _, _)
find_device(devs, d, hint, overflow_checks) ==
    IF d > Len(devs) THEN [tag |-> "none"]
    ELSE LET r == eval_device(devs[d], d, hint, overflow_checks)
         IN  IF r.tag = "skip" THEN find_device(devs, d + 1, hint, overflow_checks)
             ELSE r

(***************************************************************************)
(* Native handles, the trace of driver calls, and Rust's drop order.       *)
(***************************************************************************)
H(kind, i) == [kind |-> kind, i |-> i]

Ev(op, h) == [op |-> op, h |-> h]

\* a local that owns handles: a VkOwned, a Vec of VkOwned, or the SafeDeviceV1_0
Local(name, ty, owns) == [name |-> name, ty |-> ty, owns |-> owns]

\* impl Drop for VkOwned: (self.destroy_fn)(self.value)
vk_owned_drop_Never(h) == <<>>

vk_owned_drop_Twice(h) == <<Ev("destroy", h), Ev("destroy", h)>>

vk_owned_drop(h) == <<Ev("destroy", h)>>

\* impl Drop for SafeDeviceV1_0: destroy_device
safe_device_drop(h) == <<Ev("destroy", h)>>

\* the elements of a Vec are dropped first to last
RECURSIVE drop_vec(_)
drop_vec(owns) ==
    IF owns = <<>> THEN <<>>
    ELSE vk_owned_drop(Head(owns)) \o drop_vec(Tail(owns))

drop_local(l) ==
    IF l.ty = "SafeDeviceV1_0" THEN safe_device_drop(l.owns[1])
    ELSE drop_vec(l.owns)

RECURSIVE drop_block_DeclarationOrder(_)
drop_block_DeclarationOrder(b) ==
    IF b = <<>> THEN <<>>
    ELSE drop_local(b[1]) \o drop_block_DeclarationOrder(Tail(b))

\* the locals of a block are dropped last declared first
RECURSIVE drop_block(_)
drop_block(b) ==
    IF b = <<>> THEN <<>>
    ELSE drop_local(b[Len(b)]) \o drop_block(SubSeq(b, 1, Len(b) - 1))

\* a panic unwinds every open block, the innermost first
RECURSIVE unwind(_)
unwind(ss) ==
    IF ss = <<>> THEN <<>>
    ELSE drop_block(ss[Len(ss)]) \o unwind(SubSeq(ss, 1, Len(ss) - 1))

open_block(ss) == Append(ss, <<>>)

close_block(ss) == SubSeq(ss, 1, Len(ss) - 1)

declare(ss, l) == [ss EXCEPT ![Len(ss)] = Append(@, l)]

\* the innermost block without the named locals (they were moved out of it)
move_out(ss, names) ==
    [ss EXCEPT ![Len(ss)] = SelectSeq(@, LAMBDA l : l.name \notin names)]

\* the local `name` of the innermost block
local(ss, name) ==
    LET b == ss[Len(ss)]
    IN  b[CHOOSE i \in 1..Len(b) : b[i].name = name]

\* push onto the Vec that the innermost block's last local holds
push(ss, h) ==
    LET b == ss[Len(ss)]
    IN  [ss EXCEPT ![Len(ss)][Len(b)].owns = Append(@, h)]

(***************************************************************************)
(* The enumerations the driver can answer with.                            *)
(***************************************************************************)
Family(flags, count, present) ==
    [queue_flags |-> flags, queue_count |-> count, present |-> present]

QueueFamilyLists ==
    { <<Family({QUEUE_GRAPHICS_BIT}, 1, TRUE)>>,
      <<Family({QUEUE_GRAPHICS_BIT, QUEUE_COMPUTE_BIT, QUEUE_TRANSFER_BIT}, 1, FALSE),
        Family({QUEUE_TRANSFER_BIT}, 1, TRUE)>>,
      <<Family({QUEUE_COMPUTE_BIT}, 1, TRUE)>> }

ExtensionLists == { VkOk(<<VK_KHR_SWAPCHAIN_EXTENSION_NAME>>), VkOk(<<"VK_EXT_debug_marker">>) }

Extent(w, h) == [width |-> w, height |-> h]

Capabilities(min_count, max_count, current, min_extent, max_extent) ==
    [min_image_count |-> min_count, max_image_count |-> max_count,
     current_extent |-> current,
     min_image_extent |-> min_extent, max_image_extent |-> max_extent]

Surface(capabilities, formats, present_modes) ==
    [capabilities |-> capabilities, formats |-> formats, present_modes |-> present_modes]

SurfaceAnswers ==
    { Surface(VkOk(Capabilities(1, 2, Extent(UMax, UMax), Extent(1, 1), Extent(3, 3))),
              VkOk(<<PREFERRED_FORMAT>>), VkOk(<<"Fifo", "Mailbox">>)),
      Surface(VkOk(Capabilities(2, 2, Extent(2, 2), Extent(1, 1), Extent(3, 3))),
              VkOk(<<PREFERRED_FORMAT>>), VkOk(<<"Fifo">>)),
      Surface(VkOk(Capabilities(1, 0, Extent(2, 2), Extent(1, 1), Extent(3, 3))),
              VkOk(<<>>), VkOk(<<"Fifo">>)),
      Surface(VkOk(Capabilities(1, 0, Extent(2, 2), Extent(1, 1), Extent(3, 3))),
              VkErr("ErrorSurfaceLostKhr"), VkOk(<<"Fifo">>)) }

\* The chain asks a device for its queue families; if a pair of families is found,
\* for its extensions; if they suffice, for the three surface answers; and if a
\* format and a present mode can be chosen, for its properties and features.
AskedForExtensions(dev) == select_families(dev.queue_families).some

AskedForSurface(dev) ==
    /\ AskedForExtensions(dev)
    /\ dev.extensions.ok
    /\ check_physical_device_extension_support(dev.extensions, REQUIRED_EXTENSIONS).v

AskedForProperties(dev) ==
    /\ AskedForSurface(dev)
    /\ SwapChainSupportDetails_new(dev.surface).result.ok
    /\ choose_format(dev.surface.formats.v).some
    /\ choose_present_mode(dev.surface.present_modes.v).some

\* An answer the chain never asks a device for does not tell two devices apart: such
\* devices are in the pool once, with that answer at one fixed value.
PhysicalDevices ==
    {dev \in [device_type : {"DiscreteGpu", "IntegratedGpu"},
              geometry_shader : {0, 1},
              queue_families : QueueFamilyLists,
              extensions : ExtensionLists,
              surface : SurfaceAnswers] :
        /\ dev.device_type = "DiscreteGpu" \/ dev.geometry_shader = 1
        /\ ~AskedForExtensions(dev)
              => dev.extensions = VkOk(<<VK_KHR_SWAPCHAIN_EXTENSION_NAME>>)
        /\ ~AskedForSurface(dev)
              => dev.surface = Surface(VkOk(Capabilities(1, 2, Extent(UMax, UMax),
                                                         Extent(1, 1), Extent(3, 3))),
                                       VkOk(<<PREFERRED_FORMAT>>),
                                       VkOk(<<"Fifo", "Mailbox">>))
        /\ ~AskedForProperties(dev)
              => dev.device_type = "DiscreteGpu" /\ dev.geometry_shader = 1}

WindowSizes == {Extent(0, UMax), Extent(2, 2)}

(***************************************************************************)
(* main (main.rs 254-924), one action per driver call or block end.        *)
(***************************************************************************)
\* the two semaphores of draw_frame (main.rs 844-854)
Semaphores == {"image_available_semaphore", "render_finished_semaphore"}

\* nothing handed to the queues, no signal operation outstanding
GpuIdle == [queue |-> <<>>, pending |-> [s \in Semaphores |-> 0]]

Init ==
    /\ pc = "create_instance"
    /\ log = <<>>
    /\ scopes = <<>>
    /\ devices = <<>>
    /\ sel = [tag |-> "none"]
    /\ images = 0
    /\ frames = 0
    /\ image_idx = 0
    /\ gpu = GpuIdle
    /\ arg = <<>>
    /\ ret = <<>>

\* the statement completes: evs are the driver calls it made
Advance(next, evs, ss) ==
    /\ pc' = next
    /\ log' = log \o evs
    /\ scopes' = ss

\* an unwrap, expect or assert fails, after the driver calls evs
Panic(evs) ==
    /\ pc' = "panicked"
    /\ log' = log \o evs \o unwind(scopes)
    /\ scopes' = <<>>

\* a VkOwned local around a handle that a create call returned with success
Owned(name, h) == Local(name, "VkOwned", <<h>>)

\* a create call of the driver reported an error for the handle h
call_failed(h) == <<Ev("create_failed", h)>>

\* The wrappers inside the Err of a create_*_safe function: none, the VkResult of the
\* driver is mapped with VkOwned::new on Ok only and its Err is passed on.
create_safe_err_Wrapped(h) == <<h>>

create_safe_err(h) == <<>>

\* Err((take_ownership(pipelines), err)): a wrapper around every handle returned
create_graphics_pipelines_safe_err(pipelines) == pipelines

\* unwrap() of the Err of a create_*_safe function: the Err value is dropped
create_safe_failed(h) == call_failed(h) \o drop_vec(create_safe_err(h))

CreateInstance ==
    /\ pc = "create_instance"
    /\ \E ok \in BOOLEAN :
        IF ok THEN Advance("create_debug_report", <<Ev("create", H("instance", 0))>>, scopes)
        ELSE Panic(call_failed(H("instance", 0)))
    /\ UNCHANGED <<devices, sel, images, frames, image_idx, arg, ret, gpu>>

CreateDebugReport ==
    /\ pc = "create_debug_report"
    /\ \E ok \in BOOLEAN :
        IF ok THEN Advance("create_surface", <<Ev("create", H("debug_report", 0))>>, scopes)
        ELSE Panic(call_failed(H("debug_report", 0)))
    /\ UNCHANGED <<devices, sel, images, frames, image_idx, arg, ret, gpu>>

\* the block of line 332 opens; create_window_surface_safe
CreateWindowSurface ==
    /\ pc = "create_surface"
    /\ \E ok \in BOOLEAN :
        IF ok
        THEN Advance("enumerate_physical_devices", <<Ev("create", H("surface", 0))>>,
                     declare(open_block(scopes), Owned("surface", H("surface", 0))))
        ELSE Panic(create_safe_failed(H("surface", 0)))
    /\ UNCHANGED <<devices, sel, images, frames, image_idx, arg, ret, gpu>>

\* enumerate_physical_devices().unwrap(): the trace keeps the number of devices found
EnumeratePhysicalDevices ==
    /\ pc = "enumerate_physical_devices"
    /\ \/ \E devs \in SeqsUpTo(PhysicalDevices, MaxDevices) :
            /\ devices' = devs
            /\ Advance("select_physical_device",
                       <<Ev("enumerate", H("physical_devices", Len(devs)))>>, scopes)
       \/ /\ Panic(<<>>)
          /\ UNCHANGED devices
    /\ UNCHANGED <<sel, images, frames, image_idx, arg, ret, gpu>>

\* devices.into_iter() ... .find(..).expect(..): the enumeration is consumed
SelectPhysicalDevice ==
    /\ pc = "select_physical_device"
    /\ \E hint \in WindowSizes, overflow_checks \in BOOLEAN :
        LET r == find_device(devices, 1, hint, overflow_checks)
        IN  /\ sel' = r
            /\ IF r.tag = "found" THEN Advance("create_device", <<>>, scopes)
               ELSE Panic(<<>>)
    /\ devices' = <<>>
    /\ UNCHANGED <<images, frames, image_idx, arg, ret, gpu>>

CreateDevice_IgnoresError ==
    /\ pc = "create_device"
    /\ \E ok \in BOOLEAN :
        IF ok
        THEN Advance("create_swapchain", <<Ev("create", H("device", 0))>>,
                     declare(scopes, Local("device", "SafeDeviceV1_0", <<H("device", 0)>>)))
        ELSE Advance("create_swapchain", call_failed(H("device", 0)), scopes)
    /\ UNCHANGED <<devices, sel, images, frames, image_idx, arg, ret, gpu>>

CreateDevice ==
    /\ pc = "create_device"
    /\ \E ok \in BOOLEAN :
        IF ok
        THEN Advance("create_swapchain", <<Ev("create", H("device", 0))>>,
                     declare(scopes, Local("device", "SafeDeviceV1_0", <<H("device", 0)>>)))
        ELSE Panic(call_failed(H("device", 0)))
    /\ UNCHANGED <<devices, sel, images, frames, image_idx, arg, ret, gpu>>

CreateSwapchain ==
    /\ pc = "create_swapchain"
    /\ \E ok \in BOOLEAN :
        IF ok
        THEN Advance("get_swapchain_images", <<Ev("create", H("swapchain", 0))>>,
                     declare(scopes, Owned("swapchain", H("swapchain", 0))))
        ELSE Panic(create_safe_failed(H("swapchain", 0)))
    /\ UNCHANGED <<devices, sel, images, frames, image_idx, arg, ret, gpu>>

\* the block of line 514 opens; the Vec of image views starts empty
GetSwapchainImages ==
    /\ pc = "get_swapchain_images"
    /\ \/ /\ \E n \in 1..MaxImages : images' = n
          /\ Advance("create_image_views", <<>>,
                     declare(open_block(scopes), Local("image_views", "Vec", <<>>)))
       \/ /\ Panic(<<>>)
          /\ UNCHANGED images
    /\ UNCHANGED <<devices, sel, frames, image_idx, arg, ret, gpu>>

\* one step of swapchain_images.iter().map(..).collect()
CreateImageView ==
    /\ pc = "create_image_views"
    /\ LET i == Len(local(scopes, "image_views").owns)
       IN  \E ok \in BOOLEAN :
            IF ok
            THEN Advance(IF i + 1 = images THEN "assert_image_count" ELSE "create_image_views",
                         <<Ev("create", H("image_view", i))>>,
                         push(scopes, H("image_view", i)))
            ELSE Panic(create_safe_failed(H("image_view", i)))
    /\ UNCHANGED <<devices, sel, images, frames, image_idx, arg, ret, gpu>>

\* assert!(swapchain_images.len() as u32 >= swap_image_count)
AssertImageCount ==
    /\ pc = "assert_image_count"
    /\ IF images >= sel.swap_image_count
       THEN Advance("create_vert_shader_module", <<>>, scopes)
       ELSE Panic(<<>>)
    /\ UNCHANGED <<devices, sel, images, frames, image_idx, arg, ret, gpu>>

\* the block of line 556 opens
CreateVertShaderModule ==
    /\ pc = "create_vert_shader_module"
    /\ \E ok \in BOOLEAN :
        IF ok
        THEN Advance("create_frag_shader_module",
                     <<Ev("create", H("vert_shader_module", 0))>>,
                     declare(open_block(scopes),
                             Owned("vert_shader_module", H("vert_shader_module", 0))))
        ELSE Panic(create_safe_failed(H("vert_shader_module", 0)))
    /\ UNCHANGED <<devices, sel, images, frames, image_idx, arg, ret, gpu>>

CreateFragShaderModule ==
    /\ pc = "create_frag_shader_module"
    /\ \E ok \in BOOLEAN :
        IF ok
        THEN Advance("create_pipeline_layout",
                     <<Ev("create", H("frag_shader_module", 0))>>,
                     declare(scopes, Owned("frag_shader_module", H("frag_shader_module", 0))))
        ELSE Panic(create_safe_failed(H("frag_shader_module", 0)))
    /\ UNCHANGED <<devices, sel, images, frames, image_idx, arg, ret, gpu>>

CreatePipelineLayout ==
    /\ pc = "create_pipeline_layout"
    /\ \E ok \in BOOLEAN :
        IF ok
        THEN Advance("create_render_pass", <<Ev("create", H("pipeline_layout", 0))>>,
                     declare(scopes, Owned("pipeline_layout", H("pipeline_layout", 0))))
        ELSE Panic(create_safe_failed(H("pipeline_layout", 0)))
    /\ UNCHANGED <<devices, sel, images, frames, image_idx, arg, ret, gpu>>

CreateRenderPass ==
    /\ pc = "create_render_pass"
    /\ \E ok \in BOOLEAN :
        IF ok
        THEN Advance("create_graphics_pipeline", <<Ev("create", H("render_pass", 0))>>,
                     declare(scopes, Owned("render_pass", H("render_pass", 0))))
        ELSE Panic(create_safe_failed(H("render_pass", 0)))
    /\ UNCHANGED <<devices, sel, images, frames, image_idx, arg, ret, gpu>>

\* a let pattern declares its bindings from left to right
RECURSIVE bind_pattern(_, _)
bind_pattern(ss, locals) ==
    IF locals = <<>> THEN ss
    ELSE bind_pattern(declare(ss, Head(locals)), Tail(locals))

\* create_graphics_pipelines_safe(..).map_err(..).unwrap().into_iter().next().expect(..),
\* then the block of line 556 ends with the value (pipeline, pipeline_layout, render_pass),
\* bound by `let (pipeline, pipeline_layout, render_pass)`. On an error the wrapper that
\* create_graphics_pipelines_safe made around the returned handle is dropped by map_err.
CreateGraphicsPipeline ==
    /\ pc = "create_graphics_pipeline"
    /\ \E ok \in BOOLEAN :
        IF ok
        THEN LET rest == move_out(scopes, {"pipeline_layout", "render_pass"})
             IN  Advance("create_framebuffers",
                         <<Ev("create", H("pipeline", 0))>> \o drop_block(rest[Len(rest)]),
                         declare(bind_pattern(close_block(rest),
                                              <<Owned("pipeline", H("pipeline", 0)),
                                                local(scopes, "pipeline_layout"),
                                                local(scopes, "render_pass")>>),
                                 Local("framebuffers", "Vec", <<>>)))
        ELSE Panic(call_failed(H("pipeline", 0))
                   \o drop_vec(create_graphics_pipelines_safe_err(<<H("pipeline", 0)>>)))
    /\ UNCHANGED <<devices, sel, images, frames, image_idx, arg, ret, gpu>>

\* one step of image_views.iter().map(..).collect()
CreateFramebuffer ==
    /\ pc = "create_framebuffers"
    /\ LET i == Len(local(scopes, "framebuffers").owns)
       IN  \E ok \in BOOLEAN :
            IF ok
            THEN Advance(IF i + 1 = Len(local(scopes, "image_views").owns)
                         THEN "create_command_pool" ELSE "create_framebuffers",
                         <<Ev("create", H("framebuffer", i))>>,
                         push(scopes, H("framebuffer", i)))
            ELSE Panic(create_safe_failed(H("framebuffer", i)))
    /\ UNCHANGED <<devices, sel, images, frames, image_idx, arg, ret, gpu>>

CreateCommandPool ==
    /\ pc = "create_command_pool"
    /\ \E ok \in BOOLEAN :
        IF ok
        THEN Advance("record_command_buffers", <<Ev("create", H("command_pool", 0))>>,
                     declare(scopes, Owned("command_pool", H("command_pool", 0))))
        ELSE Panic(create_safe_failed(H("command_pool", 0)))
    /\ UNCHANGED <<devices, sel, images, frames, image_idx, arg, ret, gpu>>

\* allocate_command_buffers, then begin .. end of each command buffer
RecordCommandBuffers ==
    /\ pc = "record_command_buffers"
    /\ \E ok \in BOOLEAN :
        IF ok THEN Advance("create_image_available_semaphore",
                           <<Ev("allocate", H("command_buffers", 0))>>, scopes)
        ELSE Panic(<<>>)
    /\ UNCHANGED <<devices, sel, images, frames, image_idx, arg, ret, gpu>>

\* create_semaphore_safe is not among the sources; it is used like the other
\* create_*_safe functions: a VkOwned around the handle of a successful call.
create_semaphore_safe(name) == Owned(name, H(name, 0))

\* the block of line 844 opens
CreateImageAvailableSemaphore ==
    /\ pc = "create_image_available_semaphore"
    /\ \E ok \in BOOLEAN :
        IF ok
        THEN Advance("create_render_finished_semaphore",
                     <<Ev("create", H("image_available_semaphore", 0))>>,
                     declare(open_block(scopes), create_semaphore_safe("image_available_semaphore")))
        ELSE Panic(create_safe_failed(H("image_available_semaphore", 0)))
    /\ UNCHANGED <<devices, sel, images, frames, image_idx, arg, ret, gpu>>

\* the block ends with the value (image_available_semaphore, render_finished_semaphore)
CreateRenderFinishedSemaphore ==
    /\ pc = "create_render_finished_semaphore"
    /\ \E ok \in BOOLEAN :
        IF ok
        THEN Advance("frame_loop",
                     <<Ev("create", H("render_finished_semaphore", 0))>>,
                     bind_pattern(close_block(scopes),
                                  <<local(scopes, "image_available_semaphore"),
                                    create_semaphore_safe("render_finished_semaphore")>>))
        ELSE Panic(create_safe_failed(H("render_finished_semaphore", 0)))
    /\ UNCHANGED <<devices, sel, images, frames, image_idx, arg, ret, gpu>>

(***************************************************************************)
(* The frame loop (main.rs 856-911).  The host only issues the calls; the  *)
(* GPU carries out queued work later, on its own (GpuStep).  gpu.queue is  *)
(* the work handed to the queues and not yet carried out; gpu.pending[s]   *)
(* counts the signal operations issued on the semaphore s whose wait has   *)
(* not been carried out yet.                                               *)
(***************************************************************************)
\* acquire_next_image_khr(*swapchain, u64::MAX, *image_available_semaphore, Fence::null())
acquire_next_image(idx) ==
    [op |-> "acquire", h |-> H("image", idx), signal |-> "image_available_semaphore"]

submit_info_FirstBuffer(idx) ==
    [op |-> "submit", h |-> H("image", 0), queue |-> "graphics_queue",
     wait |-> "image_available_semaphore", signal |-> "render_finished_semaphore"]

\* queue_submit(graphics_queue, &[submit_info], Fence::null()) with
\* p_command_buffers: &command_buffers[image_idx]
submit_info(idx) ==
    [op |-> "submit", h |-> H("image", idx), queue |-> "graphics_queue",
     wait |-> "image_available_semaphore", signal |-> "render_finished_semaphore"]

\* queue_present_khr(presentation_queue, &PresentInfoKHR { .. })
present_info(idx) ==
    [op |-> "present", h |-> H("image", idx), queue |-> "presentation_queue",
     wait |-> "render_finished_semaphore"]

\* a signal operation is issued on the semaphore s
signal(g, s) == [g EXCEPT !.pending[s] = @ + 1]

\* work is handed to a queue
enqueue(g, work) == [g EXCEPT !.queue = Append(@, work)]

FrameError_Retry(step) ==
    Advance("frame_loop", <<Ev("frame_failed", H(step, frames))>>, scopes)

\* the unwrap() of a failed step of draw_frame
FrameError(step) == Panic(<<Ev("frame_failed", H(step, frames))>>)

\* while !window.should_close() && !should_close
FrameLoop ==
    /\ pc = "frame_loop"
    /\ \/ /\ frames < MaxFrames
          /\ Advance("acquire_next_image", <<>>, scopes)
       \/ Advance("device_wait_idle", <<>>, scopes)
    /\ UNCHANGED <<devices, sel, images, frames, image_idx, gpu, arg, ret>>

\* draw_frame: acquire_next_image_khr(..).unwrap()
AcquireNextImage ==
    /\ pc = "acquire_next_image"
    /\ \/ \E idx \in 0..(images - 1) :
            /\ image_idx' = idx
            /\ gpu' = signal(gpu, acquire_next_image(idx).signal)
            /\ Advance("queue_submit", <<acquire_next_image(idx)>>, scopes)
       \/ /\ FrameError("acquire")
          /\ UNCHANGED <<image_idx, gpu>>
    /\ UNCHANGED <<devices, sel, images, frames, arg, ret>>

\* draw_frame: queue_submit(graphics_queue, command_buffers[image_idx]).unwrap()
QueueSubmit ==
    /\ pc = "queue_submit"
    /\ \E ok \in BOOLEAN :
        IF ok
        THEN /\ Advance("queue_present", <<submit_info(image_idx)>>, scopes)
             /\ gpu' = enqueue(signal(gpu, submit_info(image_idx).signal),
                               submit_info(image_idx))
        ELSE /\ FrameError("submit")
             /\ UNCHANGED gpu
    /\ UNCHANGED <<devices, sel, images, frames, image_idx, arg, ret>>

\* draw_frame: queue_present_khr(presentation_queue, image_idx).unwrap()
QueuePresent ==
    /\ pc = "queue_present"
    /\ \E ok \in BOOLEAN :
        IF ok
        THEN /\ Advance("frame_loop", <<present_info(image_idx)>>, scopes)
             /\ gpu' = enqueue(gpu, present_info(image_idx))
             /\ frames' = frames + 1
        ELSE /\ FrameError("present")
             /\ UNCHANGED <<frames, gpu>>
    /\ UNCHANGED <<devices, sel, images, image_idx, arg, ret>>

\* the logical device exists: its SafeDeviceV1_0 is a live local
DeviceAlive ==
    \E b \in 1..Len(scopes) : \E l \in 1..Len(scopes[b]) : scopes[b][l].name = "device"

\* The GPU carries out the oldest queued work: its wait on a semaphore is done,
\* which takes up the signal it waited for.
GpuStep ==
    /\ DeviceAlive
    /\ gpu.queue # <<>>
    /\ gpu' = [queue |-> Tail(gpu.queue),
               pending |-> [gpu.pending EXCEPT ![Head(gpu.queue).wait] = @ - 1]]
    /\ UNCHANGED <<pc, log, scopes, devices, sel, images, frames, image_idx, arg, ret>>

\* device.device_wait_idle().unwrap(): returns with success once the queues are idle
DeviceWaitIdle ==
    /\ pc = "device_wait_idle"
    /\ \/ /\ gpu.queue = <<>>
          /\ Advance("exit_inner_scope", <<Ev("wait_idle", H("device", 0))>>, scopes)
       \/ Panic(<<Ev("wait_idle_failed", H("device", 0))>>)
    /\ UNCHANGED <<devices, sel, images, frames, image_idx, gpu, arg, ret>>

\* the block of line 514 ends at line 912
ExitInnerScope ==
    /\ pc = "exit_inner_scope"
    /\ Advance("exit_outer_scope", drop_block(scopes[Len(scopes)]), close_block(scopes))
    /\ UNCHANGED <<devices, sel, images, frames, image_idx, arg, ret, gpu>>

\* the block of line 332 ends at line 913
ExitOuterScope ==
    /\ pc = "exit_outer_scope"
    /\ Advance("destroy_debug_report", drop_block(scopes[Len(scopes)]), close_block(scopes))
    /\ UNCHANGED <<devices, sel, images, frames, image_idx, arg, ret, gpu>>

DestroyDebugReport ==
    /\ pc = "destroy_debug_report"
    /\ Advance("destroy_instance", <<Ev("destroy", H("debug_report", 0))>>, scopes)
    /\ UNCHANGED <<devices, sel, images, frames, image_idx, arg, ret, gpu>>

DestroyInstance ==
    /\ pc = "destroy_instance"
    /\ Advance("done", <<Ev("destroy", H("instance", 0))>>, scopes)
    /\ UNCHANGED <<devices, sel, images, frames, image_idx, arg, ret, gpu>>

Next ==
    \/ CreateInstance
    \/ CreateDebugReport
    \/ CreateWindowSurface
    \/ EnumeratePhysicalDevices
    \/ SelectPhysicalDevice
    \/ CreateDevice
    \/ CreateSwapchain
    \/ GetSwapchainImages
    \/ CreateImageView
    \/ AssertImageCount
    \/ CreateVertShaderModule
    \/ CreateFragShaderModule
    \/ CreatePipelineLayout
    \/ CreateRenderPass
    \/ CreateGraphicsPipeline
    \/ CreateFramebuffer
    \/ CreateCommandPool
    \/ RecordCommandBuffers
    \/ CreateImageAvailableSemaphore
    \/ CreateRenderFinishedSemaphore
    \/ FrameLoop
    \/ AcquireNextImage
    \/ QueueSubmit
    \/ QueuePresent
    \/ GpuStep
    \/ DeviceWaitIdle
    \/ ExitInnerScope
    \/ ExitOuterScope
    \/ DestroyDebugReport
    \/ DestroyInstance

Spec == Init /\ [][Next]_vars

(***************************************************************************)
(* The selection of queue families, on its own: every list of up to        *)
(* MaxFamilies queue families, then the first flat_map closure applied.     *)
(***************************************************************************)
QueueFlagValues ==
    { {}, {QUEUE_GRAPHICS_BIT}, {QUEUE_COMPUTE_BIT, QUEUE_TRANSFER_BIT},
      {QUEUE_GRAPHICS_BIT, QUEUE_COMPUTE_BIT, QUEUE_TRANSFER_BIT} }

QueueFamilies ==
    [queue_flags : QueueFlagValues, queue_count : {0, 1}, present : BOOLEAN]

Idle ==
    /\ log = <<>>
    /\ scopes = <<>>
    /\ devices = <<>>
    /\ sel = [tag |-> "none"]
    /\ images = 0
    /\ frames = 0
    /\ image_idx = 0
    /\ gpu = GpuIdle

InitFamilies ==
    /\ pc = "select_families"
    /\ arg \in SeqsUpTo(QueueFamilies, MaxFamilies)
    /\ ret = <<>>
    /\ Idle

CallSelectFamilies ==
    /\ pc = "select_families"
    /\ pc' = "families_selected"
    /\ ret' = [gfx_families |-> gfx_families(arg),
               presentation_families |-> presentation_families(arg),
               families |-> select_families(arg)]
    /\ UNCHANGED <<log, scopes, devices, sel, images, frames, image_idx, arg, gpu>>

\* unique_queue_family_indices.into_iter().collect(): a BTreeSet iterates ascending
RECURSIVE into_vec(_)
into_vec(unique) ==
    IF unique = {} THEN <<>>
    ELSE <<SetMin(unique)>> \o into_vec(unique \ {SetMin(unique)})

update_sharing_mode_ConcurrentIfAny(create_info) ==
    [create_info EXCEPT !.image_sharing_mode =
        IF create_info.queue_family_index_count > 0 THEN "Concurrent" ELSE "Exclusive"]

update_sharing_mode(create_info) ==
    [create_info EXCEPT !.image_sharing_mode =
        IF create_info.queue_family_index_count > 1 THEN "Concurrent" ELSE "Exclusive"]

\* the sharing fields of the SwapchainCreateInfoKHR that main hands to the driver
swapchain_create_info(graphics_family_idx, presentation_family_idx) ==
    LET unique_queue_family_indices == {graphics_family_idx, presentation_family_idx}
        queue_family_indices == into_vec(unique_queue_family_indices)
    IN  update_sharing_mode([image_sharing_mode |-> "Exclusive",
                             queue_family_index_count |-> Len(queue_family_indices),
                             p_queue_family_indices |-> queue_family_indices])

\* the selected pair of families reaches the swapchain creation of main
BuildSwapchainCreateInfo ==
    /\ pc = "families_selected"
    /\ ret.families.some
    /\ pc' = "swapchain_create_info"
    /\ ret' = [gfx_families |-> ret.gfx_families,
               presentation_families |-> ret.presentation_families,
               families |-> ret.families,
               create_info |-> swapchain_create_info(ret.families.v.graphics,
                                                     ret.families.v.presentation)]
    /\ UNCHANGED <<log, scopes, devices, sel, images, frames, image_idx, arg, gpu>>

NextFamilies == CallSelectFamilies \/ BuildSwapchainCreateInfo

SpecFamilies == InitFamilies /\ [][NextFamilies]_vars

(***************************************************************************)
(* check_physical_device_extension_support on its own: every enumerated    *)
(* and every required list of up to MaxExts names.                         *)
(***************************************************************************)
InitExtensions ==
    /\ pc = "check_extensions"
    /\ arg \in [enumerated : {VkOk(names) : names \in SeqsUpTo(ExtensionNames, MaxExts)}
                                \cup {VkErr("ErrorOutOfHostMemory")},
                required : SeqsUpTo(ExtensionNames, MaxExts)]
    /\ ret = <<>>
    /\ Idle

CallCheckExtensions ==
    /\ pc = "check_extensions"
    /\ pc' = "extensions_checked"
    /\ ret' = check_physical_device_extension_support(arg.enumerated, arg.required)
    /\ UNCHANGED <<log, scopes, devices, sel, images, frames, image_idx, arg, gpu>>

NextExtensions == CallCheckExtensions

SpecExtensions == InitExtensions /\ [][NextExtensions]_vars

(***************************************************************************)
(* Reading the trace.                                                      *)
(***************************************************************************)
Positions(op, h) == {i \in 1..Len(log) : log[i] = Ev(op, h)}

Created == {log[i].h : i \in {j \in 1..Len(log) : log[j].op = "create"}}

DestroyCount(h) == Cardinality(Positions("destroy", h))

Destroyed(h) == Positions("destroy", h) # {}

CreatePos(h) == SetMin(Positions("create", h))

DestroyPos(h) == SetMin(Positions("destroy", h))

Enumerated(n) == \E i \in 1..Len(log) : log[i] = Ev("enumerate", H("physical_devices", n))

\* the handles of a run in which every creation call succeeds
AllHandles ==
    {H(kind, 0) : kind \in {"instance", "debug_report", "surface", "device", "swapchain",
                            "vert_shader_module", "frag_shader_module", "pipeline_layout",
                            "render_pass", "pipeline", "command_pool",
                            "image_available_semaphore", "render_finished_semaphore"}}
    \cup {H(kind, i) : kind \in {"image_view", "framebuffer"}, i \in 0..(images - 1)}

\* C1: when every creation call succeeds and the frame loop exits normally, main
\* returns with every handle it created (all of AllHandles) destroyed exactly once.
C1_DestroyedExactlyOnce ==
    pc = "done" =>
        /\ Created = AllHandles
        /\ \A h \in Created : DestroyCount(h) = 1

C1_Witness ==
    /\ pc = "done"
    /\ images >= 2
    /\ frames >= 1
    /\ DestroyCount(H("framebuffer", 1)) = 1
    /\ DestroyCount(H("render_finished_semaphore", 0)) = 1

\* C2: when a creation step fails and main aborts, every handle created before the
\* failing step, the instance and the debug-report callback included, is destroyed,
\* and in reverse order of creation.
C2_NoLeakOnFailure ==
    pc = "panicked" =>
        /\ \A h \in Created : Destroyed(h)
        /\ \A a, b \in Created :
            (CreatePos(a) < CreatePos(b) /\ Destroyed(a) /\ Destroyed(b))
                => DestroyPos(b) < DestroyPos(a)

\* the dependency chain, as (dependent, depended-on) kinds
DependsOn ==
    { <<"debug_report", "instance">>, <<"surface", "instance">>, <<"device", "instance">>,
      <<"swapchain", "device">>, <<"image_view", "device">>, <<"pipeline_layout", "device">>,
      <<"render_pass", "device">>, <<"command_pool", "device">>,
      <<"image_view", "swapchain">>, <<"framebuffer", "swapchain">>,
      <<"pipeline", "render_pass">>, <<"pipeline", "pipeline_layout">>,
      <<"framebuffer", "pipeline">> }

\* C3: a resource is destroyed only after every created resource that depends on it
\* has been destroyed; the pipeline before its render pass and its pipeline layout.
C3_DependentsDestroyedFirst ==
    \A p \in DependsOn : \A a, b \in Created :
        (a.kind = p[1] /\ b.kind = p[2] /\ Destroyed(b))
            => (Destroyed(a) /\ DestroyPos(a) < DestroyPos(b))

\* C4: teardown is the exact reverse of creation: of two handles, both destroyed,
\* the one created later is destroyed first.
C4_ReverseOfCreation ==
    \A a, b \in Created :
        (CreatePos(a) < CreatePos(b) /\ Destroyed(a) /\ Destroyed(b))
            => DestroyPos(b) < DestroyPos(a)

(***************************************************************************)
(* The spec's reading of a queue family list.                              *)
(***************************************************************************)
SupportsGraphics(family) ==
    QUEUE_GRAPHICS_BIT \in family.queue_flags /\ family.queue_count > 0

GraphicsCapable(families) ==
    {i \in 0..(Len(families) - 1) : SupportsGraphics(families[i + 1])}

PresentCapable(families) ==
    {i \in 0..(Len(families) - 1) : families[i + 1].present}

Assignment(g, p) == Some([graphics |-> g, presentation |-> p])

\* C5: when some family is both graphics- and presentation-capable, the smallest such
\* index is assigned as the graphics and as the presentation family.
C5_CombinedFamilyPreferred ==
    pc = "families_selected" =>
        LET both == GraphicsCapable(arg) \cap PresentCapable(arg)
        IN  both # {} => ret.families = Assignment(SetMin(both), SetMin(both))

\* family 2 is the combined one, after a graphics-only and a presentation-only family
C5_Witness ==
    /\ pc = "families_selected"
    /\ Len(arg) = 3
    /\ GraphicsCapable(arg) = {0, 2}
    /\ PresentCapable(arg) = {1, 2}
    /\ ret.families = Assignment(2, 2)

\* C6: with no combined family, the smallest graphics-capable and the smallest
\* presentation-capable index are assigned independently, and there is no assignment
\* when either set is empty; graphics-only 0 and presentation-only 1 give (0, 1).
C6_SplitPairFallback ==
    pc = "families_selected" =>
        LET g == GraphicsCapable(arg)
            p == PresentCapable(arg)
        IN  g \cap p = {} =>
                ret.families = IF g # {} /\ p # {} THEN Assignment(SetMin(g), SetMin(p))
                               ELSE None

C6_Witness ==
    /\ pc = "families_selected"
    /\ arg = <<Family({QUEUE_GRAPHICS_BIT}, 1, FALSE), Family({}, 1, TRUE)>>
    /\ ret.families = Assignment(0, 1)

\* C7: the graphics families are exactly those whose flags include the graphics bit
\* and whose queue count is greater than 0.
C7_GraphicsCapable ==
    pc = "families_selected" => ret.gfx_families = GraphicsCapable(arg)

\* graphics|compute|transfer counts, compute|transfer does not, nor graphics with no queue
C7_Witness ==
    /\ pc = "families_selected"
    /\ arg = <<Family({QUEUE_GRAPHICS_BIT, QUEUE_COMPUTE_BIT, QUEUE_TRANSFER_BIT}, 1, FALSE),
               Family({QUEUE_COMPUTE_BIT, QUEUE_TRANSFER_BIT}, 1, FALSE),
               Family({QUEUE_GRAPHICS_BIT}, 0, FALSE)>>
    /\ ret.gfx_families = {0}

(***************************************************************************)
(* The spec's reading of a device candidate.                               *)
(***************************************************************************)
QueriesSucceed(dev) ==
    /\ dev.extensions.ok
    /\ dev.surface.capabilities.ok
    /\ dev.surface.formats.ok
    /\ dev.surface.present_modes.ok

PassesAll(dev) ==
    /\ GraphicsCapable(dev.queue_families) # {}
    /\ PresentCapable(dev.queue_families) # {}
    /\ QueriesSucceed(dev)
    /\ \A i \in 1..Len(REQUIRED_EXTENSIONS) :
        \E j \in 1..Len(dev.extensions.v) : dev.extensions.v[j] = REQUIRED_EXTENSIONS[i]
    /\ dev.surface.formats.v # <<>>
    /\ dev.surface.present_modes.v # <<>>
    /\ dev.device_type = "DiscreteGpu"
    /\ dev.geometry_shader # 0

\* C8: the selection returns the first device of the enumeration that passes all of
\* the steps, and fails exactly when no device passes them; stated for the
\* enumerations on which every query of the driver succeeds.
C8_FirstMatchWins ==
    [][(/\ pc = "select_physical_device"
        /\ \A d \in 1..Len(devices) : QueriesSucceed(devices[d]))
       => LET passing == {d \in 1..Len(devices) : PassesAll(devices[d])}
          IN  IF passing = {} THEN pc' = "panicked" /\ sel'.tag = "none"
              ELSE sel'.tag = "found" /\ sel'.device = SetMin(passing)]_vars

NoSuitableDeviceOfNone ==
    pc = "panicked" /\ sel.tag = "none" /\ Enumerated(0)

\* C9 as claimed: when the enumeration is empty and the selection fails, no handle
\* has been created and no destroy call is made.
C9_NothingCreated ==
    NoSuitableDeviceOfNone => \A i \in 1..Len(log) : log[i].op \notin {"create", "destroy"}

\* C9: when the enumeration is empty the selection fails; the instance, the
\* debug-report callback and the surface, and nothing else, have been created by then,
\* and no destroy call is made but the surface's, at most once.
C9_OnlySurfaceDestroyed ==
    NoSuitableDeviceOfNone =>
        /\ Created = {H("instance", 0), H("debug_report", 0), H("surface", 0)}
        /\ \A i \in 1..Len(log) : log[i].op = "destroy" => log[i].h = H("surface", 0)
        /\ DestroyCount(H("surface", 0)) <= 1

C9_Witness ==
    /\ NoSuitableDeviceOfNone
    /\ Destroyed(H("surface", 0))

\* C10: the check returns true exactly when every required name is, byte for byte,
\* among the enumerated names; true for no required name, false for one missing name.
C10_ExtensionsSupported ==
    (pc = "extensions_checked" /\ arg.enumerated.ok) =>
        ret = Ok(\A i \in 1..Len(arg.required) :
                    \E j \in 1..Len(arg.enumerated.v) : arg.enumerated.v[j] = arg.required[i])

\* a name that differs only in case does not count
C10_Witness ==
    /\ pc = "extensions_checked"
    /\ arg.required = <<VK_KHR_SWAPCHAIN_EXTENSION_NAME>>
    /\ arg.enumerated = VkOk(<<"vk_khr_swapchain", "VK_EXT_debug_marker">>)
    /\ ret = Ok(FALSE)

(***************************************************************************)
(* triple_buffer_image_count on its own: every snapshot whose image counts *)
(* lie in 0..UMax with max_image_count zero (no upper limit) or not below  *)
(* min_image_count, in both build profiles.                                *)
(***************************************************************************)
ImageCounts ==
    {c \in [min_image_count : 0..UMax, max_image_count : 0..UMax] :
        c.max_image_count = 0 \/ c.min_image_count <= c.max_image_count}

InitImageCount ==
    /\ pc = "triple_buffer_image_count"
    /\ arg \in [capabilities : ImageCounts, overflow_checks : BOOLEAN]
    /\ ret = <<>>
    /\ Idle

CallTripleBufferImageCount ==
    /\ pc = "triple_buffer_image_count"
    /\ pc' = "image_count_chosen"
    /\ ret' = triple_buffer_image_count(arg.capabilities, arg.overflow_checks)
    /\ UNCHANGED <<log, scopes, devices, sel, images, frames, image_idx, arg, gpu>>

NextImageCount == CallTripleBufferImageCount

SpecImageCount == InitImageCount /\ [][NextImageCount]_vars

Min(a, b) == IF a < b THEN a ELSE b

\* C11: for a snapshot with max_image_count > 0 and min_image_count <= max_image_count
\* (equality included), triple_buffer_image_count returns min(min_image_count + 1,
\* max_image_count), a value within [min_image_count, max_image_count].
C11_ClampedToMax ==
    (/\ pc = "image_count_chosen"
     /\ arg.capabilities.max_image_count > 0
     /\ arg.capabilities.min_image_count <= arg.capabilities.max_image_count)
    => /\ ret = Ok(Min(arg.capabilities.min_image_count + 1,
                       arg.capabilities.max_image_count))
       /\ ret.v >= arg.capabilities.min_image_count
       /\ ret.v <= arg.capabilities.max_image_count

\* C12 as stated: for every snapshot with max_image_count = 0 the result is exactly
\* min_image_count + 1.
C12_Unclamped ==
    (pc = "image_count_chosen" /\ arg.capabilities.max_image_count = 0)
    => ret = Ok(arg.capabilities.min_image_count + 1)

\* C12 amended: for every snapshot with max_image_count = 0 and min_image_count
\* below the largest u32, the result is exactly min_image_count + 1, not clamped.
C12_UnclampedBelowMax ==
    (/\ pc = "image_count_chosen"
     /\ arg.capabilities.max_image_count = 0
     /\ arg.capabilities.min_image_count < UMax)
    => ret = Ok(arg.capabilities.min_image_count + 1)

C12_Witness ==
    /\ pc = "image_count_chosen"
    /\ arg.capabilities.min_image_count = 1
    /\ arg.capabilities.max_image_count = 0
    /\ ret = Ok(2)

(***************************************************************************)
(* choose_swap_extent on its own: current extents with each component an   *)
(* ordinary size or the largest u32, extent limits with min <= max in each *)
(* component, and every window size the u32 cast can give.                 *)
(***************************************************************************)
Extents(S) == {Extent(w, h) : w \in S, h \in S}

ExtentCapabilities ==
    {c \in [current_extent : Extents({2, UMax}),
            min_image_extent : Extents(1..MaxExtent),
            max_image_extent : Extents(1..MaxExtent)] :
        /\ c.min_image_extent.width <= c.max_image_extent.width
        /\ c.min_image_extent.height <= c.max_image_extent.height}

InitExtent ==
    /\ pc = "choose_swap_extent"
    /\ arg \in [capabilities : ExtentCapabilities, hint : Extents(0..UMax)]
    /\ ret = <<>>
    /\ Idle

CallChooseSwapExtent ==
    /\ pc = "choose_swap_extent"
    /\ pc' = "extent_chosen"
    /\ ret' = choose_swap_extent(arg.capabilities, arg.hint)
    /\ UNCHANGED <<log, scopes, devices, sel, images, frames, image_idx, arg, gpu>>

NextExtent == CallChooseSwapExtent

SpecExtent == InitExtent /\ [][NextExtent]_vars

\* C13: when the current extent is the sentinel, the chosen extent lies within
\* [min_image_extent, max_image_extent] in each component for every window-size
\* hint (inside, below or above the range, min = max in a component included): the
\* hint is clamped, never rejected and never an abort.
C13_ClampedIntoRange ==
    (pc = "extent_chosen" /\ arg.capabilities.current_extent = Extent(UMax, UMax))
    => /\ ~ret.panic
       /\ ret.v.width >= arg.capabilities.min_image_extent.width
       /\ ret.v.width <= arg.capabilities.max_image_extent.width
       /\ ret.v.height >= arg.capabilities.min_image_extent.height
       /\ ret.v.height <= arg.capabilities.max_image_extent.height

\* C14 as stated: whenever the current extent is not the sentinel (both components
\* the largest u32), the current extent is returned unchanged.
C14_CurrentExtentVerbatim ==
    (pc = "extent_chosen" /\ arg.capabilities.current_extent # Extent(UMax, UMax))
    => ret = Ok(arg.capabilities.current_extent)

\* C14 amended: whenever the width of the current extent is not the largest u32,
\* the current extent is returned unchanged, whatever the hint and the limits.
C14_VerbatimUnlessWidthMax ==
    (pc = "extent_chosen" /\ arg.capabilities.current_extent.width # UMax)
    => ret = Ok(arg.capabilities.current_extent)

\* the current extent is returned although it lies outside the limits and the hint
C14_Witness ==
    /\ pc = "extent_chosen"
    /\ arg.capabilities.current_extent = Extent(2, UMax)
    /\ arg.capabilities.min_image_extent = Extent(3, 1)
    /\ arg.capabilities.max_image_extent = Extent(3, 3)
    /\ arg.hint = Extent(0, 0)
    /\ ret = Ok(Extent(2, UMax))

(***************************************************************************)
(* choose_format on its own: every format list of up to MaxFormats entries *)
(* over three formats and two colour spaces.                               *)
(***************************************************************************)
SurfaceFormats ==
    [format : {"Undefined", "R8g8b8a8Unorm", "B8g8r8a8Unorm"},
     color_space : {"SrgbNonlinear", "ExtendedSrgbLinearExt"}]

InitFormat ==
    /\ pc = "choose_format"
    /\ arg \in SeqsUpTo(SurfaceFormats, MaxFormats)
    /\ ret = <<>>
    /\ Idle

CallChooseFormat ==
    /\ pc = "choose_format"
    /\ pc' = "format_chosen"
    /\ ret' = choose_format(arg)
    /\ UNCHANGED <<log, scopes, devices, sel, images, frames, image_idx, arg, gpu>>

NextFormat == CallChooseFormat

SpecFormat == InitFormat /\ [][NextFormat]_vars

\* the list is the single "any format" entry
OnlyUndefined == Len(arg) = 1 /\ arg[1].format = "Undefined"

\* C15: when the list has exactly one entry and its format is Undefined,
\* choose_format returns the preferred format, whatever that entry's colour space.
C15_UndefinedGivesPreferred ==
    (pc = "format_chosen" /\ OnlyUndefined) => ret = Some(PREFERRED_FORMAT)

C15_Witness ==
    /\ pc = "format_chosen"
    /\ arg = <<[format |-> "Undefined", color_space |-> "ExtendedSrgbLinearExt"]>>
    /\ ret = Some(PREFERRED_FORMAT)

\* C16: outside the single-Undefined case, choose_format returns the preferred pair
\* when the list holds an exact match on format and colour space, otherwise the
\* first entry; the result is a member of the list; there is no result only when
\* the list is empty.
C16_ExactMatchElseFirst ==
    (pc = "format_chosen" /\ ~OnlyUndefined)
    => /\ (\E i \in 1..Len(arg) : arg[i] = PREFERRED_FORMAT) => ret = Some(PREFERRED_FORMAT)
       /\ ((\A i \in 1..Len(arg) : arg[i] # PREFERRED_FORMAT) /\ Len(arg) > 0)
              => ret = Some(arg[1])
       /\ ret.some => \E i \in 1..Len(arg) : arg[i] = ret.v
       /\ ~ret.some <=> Len(arg) = 0

\* the preferred format with another colour space is no match: the first entry wins
C16_Witness ==
    /\ pc = "format_chosen"
    /\ arg = <<[format |-> "B8g8r8a8Unorm", color_space |-> "SrgbNonlinear"],
               [format |-> "R8g8b8a8Unorm", color_space |-> "ExtendedSrgbLinearExt"]>>
    /\ ret = Some(arg[1])

(***************************************************************************)
(* choose_present_mode on its own: every list of up to MaxModes modes.     *)
(***************************************************************************)
PresentModes == {"Immediate", "Mailbox", "Fifo", "FifoRelaxed"}

InitPresentMode ==
    /\ pc = "choose_present_mode"
    /\ arg \in SeqsUpTo(PresentModes, MaxModes)
    /\ ret = <<>>
    /\ Idle

CallChoosePresentMode ==
    /\ pc = "choose_present_mode"
    /\ pc' = "present_mode_chosen"
    /\ ret' = choose_present_mode(arg)
    /\ UNCHANGED <<log, scopes, devices, sel, images, frames, image_idx, arg, gpu>>

NextPresentMode == CallChoosePresentMode

SpecPresentMode == InitPresentMode /\ [][NextPresentMode]_vars

\* C17: choose_present_mode returns the largest advertised mode under the ordering
\* of the enumeration; the result is one of the advertised modes; there is no
\* result exactly when the list is empty.
C17_MaxPresentMode ==
    pc = "present_mode_chosen"
    => /\ ~ret.some <=> Len(arg) = 0
       /\ ret.some => /\ \E i \in 1..Len(arg) : arg[i] = ret.v
                      /\ \A i \in 1..Len(arg) :
                            PresentModeOrd(arg[i]) <= PresentModeOrd(ret.v)

C17_Witness ==
    /\ pc = "present_mode_chosen"
    /\ arg = <<"Mailbox", "FifoRelaxed", "Immediate">>
    /\ ret = Some("FifoRelaxed")

\* the de-duplicated set of the two selected family indices
UniqueFamilies == {ret.families.v.graphics, ret.families.v.presentation}

\* C18 as stated: Exclusive with an empty index list when the de-duplicated set has
\* one element, Concurrent with the full ascending de-duplicated list when it has two.
C18_ExclusiveWithEmptyList ==
    pc = "swapchain_create_info"
    => /\ Cardinality(UniqueFamilies) = 1
            => /\ ret.create_info.image_sharing_mode = "Exclusive"
               /\ ret.create_info.p_queue_family_indices = <<>>
       /\ Cardinality(UniqueFamilies) = 2
            => /\ ret.create_info.image_sharing_mode = "Concurrent"
               /\ ret.create_info.p_queue_family_indices = into_vec(UniqueFamilies)

\* C18 amended: Exclusive with the one-element de-duplicated list (index count 1)
\* when the set has one element, Concurrent with the full ascending de-duplicated
\* list (index count 2) when it has two.
C18_SharingMode ==
    pc = "swapchain_create_info"
    => /\ ret.create_info.queue_family_index_count = Cardinality(UniqueFamilies)
       /\ Len(ret.create_info.p_queue_family_indices) = Cardinality(UniqueFamilies)
       /\ \A idx \in UniqueFamilies :
            \E i \in 1..Len(ret.create_info.p_queue_family_indices) :
                ret.create_info.p_queue_family_indices[i] = idx
       /\ \A i, j \in 1..Len(ret.create_info.p_queue_family_indices) :
            i < j => ret.create_info.p_queue_family_indices[i]
                        < ret.create_info.p_queue_family_indices[j]
       /\ Cardinality(UniqueFamilies) = 1
            => ret.create_info.image_sharing_mode = "Exclusive"
       /\ Cardinality(UniqueFamilies) = 2
            => ret.create_info.image_sharing_mode = "Concurrent"

\* graphics on family 1 and presentation on family 0: Concurrent over [0, 1]
C18_Witness ==
    /\ pc = "swapchain_create_info"
    /\ ret.families.v.graphics = 1
    /\ ret.families.v.presentation = 0
    /\ ret.create_info.image_sharing_mode = "Concurrent"
    /\ ret.create_info.p_queue_family_indices = <<0, 1>>

(***************************************************************************)
(* VkOwned on its own (vk_mem.rs): a wrapper is made in an inner block, is *)
(* read arg.n times, may be moved to the enclosing block as the value of   *)
(* the inner block, and is dropped when the block that owns it ends.       *)
(* ret keeps what the program did with the wrapper, in order.              *)
(***************************************************************************)
OwnedValues == {H("image_view", 0), H("semaphore", 1)}

\* the accessors: the value they return and the driver calls they make
unsafe_get(self) == [value |-> self.owns[1], evs |-> <<>>]

borrow(self) == [value |-> self.owns[1], evs |-> <<>>]

deref_Destroys(self) == [value |-> self.owns[1], evs |-> vk_owned_drop(self.owns[1])]

deref(self) == [value |-> self.owns[1], evs |-> <<>>]

\* *self.deref_mut() = a, *self.borrow_mut() = a: the &mut A that the wrapper hands
\* out is its own value field, so a store through it replaces the wrapped value
deref_mut(self, a) == [self EXCEPT !.owns = <<a>>]

borrow_mut(self, a) == [self EXCEPT !.owns = <<a>>]

\* the innermost block with the local of l's name replaced by l
store(ss, l) ==
    LET b == ss[Len(ss)]
    IN  [ss EXCEPT ![Len(ss)] = [i \in 1..Len(b) |-> IF b[i].name = l.name THEN l ELSE b[i]]]

Reads == SelectSeq(ret, LAMBDA r : r.by \in {"unsafe_get", "borrow", "deref"})

Writes == SelectSeq(ret, LAMBDA r : r.by \in {"deref_mut", "borrow_mut"})

InitOwned ==
    /\ pc = "owned_new"
    /\ arg \in [a : OwnedValues, n : 0..MaxReads]
    /\ ret = <<>>
    /\ Idle

\* VkOwned::new(a, destroy_fn) bound to a local of the inner block
OwnedNew ==
    /\ pc = "owned_new"
    /\ pc' = "owned_alive"
    /\ scopes' = declare(open_block(open_block(scopes)), Owned("owned", arg.a))
    /\ UNCHANGED <<log, devices, sel, images, frames, image_idx, arg, ret, gpu>>

OwnedRead ==
    /\ pc = "owned_alive"
    /\ Len(Reads) < arg.n
    /\ \E by \in {"unsafe_get", "borrow", "deref"} :
        LET self == local(scopes, "owned")
            r == CASE by = "unsafe_get" -> unsafe_get(self)
                   [] by = "borrow" -> borrow(self)
                   [] by = "deref" -> deref(self)
        IN  /\ ret' = Append(ret, [by |-> by, value |-> r.value])
            /\ log' = log \o r.evs
    /\ UNCHANGED <<pc, scopes, devices, sel, images, frames, image_idx, arg, gpu>>

\* a store through deref_mut or borrow_mut
OwnedWrite ==
    /\ pc = "owned_alive"
    /\ Len(Writes) < MaxWrites
    /\ \E by \in {"deref_mut", "borrow_mut"}, a \in OwnedValues :
        LET self == local(scopes, "owned")
            w == IF by = "deref_mut" THEN deref_mut(self, a) ELSE borrow_mut(self, a)
        IN  /\ scopes' = store(scopes, w)
            /\ ret' = Append(ret, [by |-> by, value |-> a])
    /\ UNCHANGED <<pc, log, devices, sel, images, frames, image_idx, arg, gpu>>

\* the inner block ends with the wrapper as its value: the enclosing block owns it
OwnedMove ==
    /\ pc = "owned_alive"
    /\ Len(scopes) = 2
    /\ LET rest == move_out(scopes, {"owned"})
       IN  /\ log' = log \o drop_block(rest[Len(rest)])
           /\ scopes' = declare(close_block(rest), local(scopes, "owned"))
    /\ ret' = Append(ret, [by |-> "move", value |-> local(scopes, "owned").owns[1]])
    /\ UNCHANGED <<pc, devices, sel, images, frames, image_idx, arg, gpu>>

\* the innermost open block ends; its locals are dropped
OwnedBlockEnd ==
    /\ pc \in {"owned_alive", "owned_dropped"}
    /\ pc = "owned_alive" => Len(Reads) = arg.n
    /\ log' = log \o drop_block(scopes[Len(scopes)])
    /\ scopes' = close_block(scopes)
    /\ pc' = IF Len(scopes) = 1 THEN "owned_done" ELSE "owned_dropped"
    /\ UNCHANGED <<devices, sel, images, frames, image_idx, arg, ret, gpu>>

NextOwned == OwnedNew \/ OwnedRead \/ OwnedWrite \/ OwnedMove \/ OwnedBlockEnd

SpecOwned == InitOwned /\ [][NextOwned]_vars

\* C19: a wrapper that is constructed, read N times (deref, borrow or unsafe_get)
\* and let go out of scope has its destroy function invoked exactly once, for
\* every N >= 0; no read invokes it, each read gives the wrapped value, and a
\* moved wrapper is destroyed only when the block that finally owns it ends.
C19_DestroyedOnceAfterReads ==
    /\ pc = "owned_alive" => log = <<>>
    /\ pc \in {"owned_dropped", "owned_done"}
          => /\ Len(log) = 1
             /\ log[1].op = "destroy"
             /\ Writes = <<>> => log[1].h = arg.a
             /\ Len(Reads) = arg.n
    /\ Writes = <<>> => \A i \in 1..Len(ret) : ret[i].value = arg.a

C19_Witness ==
    /\ pc = "owned_done"
    /\ arg.n = 3
    /\ ret = <<[by |-> "deref", value |-> arg.a], [by |-> "move", value |-> arg.a],
               [by |-> "borrow", value |-> arg.a], [by |-> "unsafe_get", value |-> arg.a]>>
    /\ log = <<Ev("destroy", arg.a)>>

\* the handles of create calls that reported an error
Failed == {log[i].h : i \in {j \in 1..Len(log) : log[j].op = "create_failed"}}

DestroyedHandles == {log[i].h : i \in {j \in 1..Len(log) : log[j].op = "destroy"}}

\* C20 as stated: a wrapper exists only around a handle that a successful creation
\* call returned; when a creation call fails, no destroy call is made for a handle
\* of that call, graphics-pipeline creation included.
C20_NoDestroyAfterFailedCreate ==
    /\ \A h \in Failed : ~Destroyed(h)
    /\ DestroyedHandles \subseteq Created

\* C20 amended: the same for every creation call except graphics-pipeline creation;
\* when that call fails, the handle it returned is wrapped all the same and the
\* wrapper is dropped at once: exactly one destroy call for it.
C20_OnlyPipelineWrappedOnFailure ==
    /\ \A h \in Failed :
          IF h.kind = "pipeline" THEN DestroyCount(h) = 1 ELSE ~Destroyed(h)
    /\ \A h \in DestroyedHandles :
          h \in Created \/ (h.kind = "pipeline" /\ h \in Failed)
    /\ Failed \cap Created = {}

\* the second shader module fails: the first is destroyed, the failed one is not
C20_Witness ==
    /\ pc = "panicked"
    /\ H("frag_shader_module", 0) \in Failed
    /\ Destroyed(H("vert_shader_module", 0))
    /\ ~Destroyed(H("frag_shader_module", 0))

(***************************************************************************)
(* Reading the frame loop in the trace.                                    *)
(***************************************************************************)
FrameOps == {"acquire", "submit", "present"}

At(i, op) == i \in 1..Len(log) /\ log[i].op = op

\* C21: in every draw_frame call the steps come in the order acquire, submit,
\* present: the acquisition signals image-available; the submission that follows it
\* is of the command buffer of the acquired index, on the graphics queue, waits on
\* image-available and signals render-finished; the presentation that follows is of
\* the same index, on the presentation queue, and waits on render-finished.  No
\* submission without its acquisition just before, no presentation without its
\* submission just before.
C21_AcquireSubmitPresent ==
    \A i \in 1..Len(log) :
        /\ log[i].op = "acquire"
              => /\ log[i] = acquire_next_image(log[i].h.i)
                 /\ log[i].signal = "image_available_semaphore"
                 /\ ~(At(i - 1, "acquire") \/ At(i - 1, "submit"))
        /\ log[i].op = "submit"
              => /\ At(i - 1, "acquire")
                 /\ log[i].h = log[i - 1].h
                 /\ log[i].queue = "graphics_queue"
                 /\ log[i].wait = "image_available_semaphore"
                 /\ log[i].signal = "render_finished_semaphore"
        /\ log[i].op = "present"
              => /\ At(i - 1, "submit")
                 /\ log[i].h = log[i - 1].h
                 /\ log[i].queue = "presentation_queue"
                 /\ log[i].wait = "render_finished_semaphore"

\* two whole frames, the second on image 1
C21_Witness ==
    /\ frames = 2
    /\ \E i \in 1..Len(log) :
          /\ i > 5
          /\ log[i] = present_info(1)
          /\ log[i - 1] = submit_info(1)
          /\ log[i - 2] = acquire_next_image(1)
          /\ log[i - 3].op = "present"

\* C22: a failure of acquisition, submission or presentation in draw_frame is
\* fatal: main is aborted, and after the failed step the trace has no further step
\* of that frame, no retry and no step of a later frame.
C22_FrameErrorIsFatal ==
    \A i \in 1..Len(log) :
        log[i].op = "frame_failed"
            => /\ pc = "panicked"
               /\ \A j \in (i + 1)..Len(log) :
                     log[j].op \notin FrameOps \cup {"frame_failed", "wait_idle"}
               /\ log[i].h.kind = "acquire" => ~At(i - 1, "acquire")
               /\ log[i].h.kind = "submit" => At(i - 1, "acquire")
               /\ log[i].h.kind = "present" => At(i - 1, "submit")

\* the submission of the second frame fails, right after its acquisition
C22_Witness ==
    /\ pc = "panicked"
    /\ \E i \in 1..Len(log) :
          /\ log[i] = Ev("frame_failed", H("submit", 1))
          /\ At(i - 1, "acquire")
          /\ At(i - 2, "present")
          /\ \A j \in (i + 1)..Len(log) : log[j].op = "destroy"

DeviceOwnedKinds ==
    {"image_available_semaphore", "render_finished_semaphore", "command_pool", "framebuffer",
     "pipeline", "render_pass", "pipeline_layout", "image_view", "swapchain", "device"}

\* C23: once a frame has been submitted, no device-owned resource is destroyed
\* unless the device idle-wait has completed after the last step of the last
\* draw_frame call and before that destroy call.
C23_IdleWaitBeforeTeardown ==
    \A i \in 1..Len(log) :
        (/\ log[i].op = "destroy"
         /\ log[i].h.kind \in DeviceOwnedKinds
         /\ \E j \in 1..(i - 1) : log[j].op = "submit")
        => \E k \in 1..(i - 1) :
              /\ log[k].op = "wait_idle"
              /\ \A j \in (k + 1)..(i - 1) : log[j].op \notin FrameOps

(***************************************************************************)
(* SwapChainSupportDetails::new on its own: each of the three queries      *)
(* answers with one of two values or one of two errors.                    *)
(***************************************************************************)
QueryErrors == {VkErr("ErrorSurfaceLostKhr"), VkErr("ErrorOutOfHostMemory")}

QueryAnswers ==
    [capabilities : {VkOk(Capabilities(1, 2, Extent(UMax, UMax), Extent(1, 1), Extent(3, 3))),
                     VkOk(Capabilities(2, 0, Extent(2, 2), Extent(1, 1), Extent(3, 3)))}
                        \cup QueryErrors,
     formats : {VkOk(<<PREFERRED_FORMAT>>), VkOk(<<>>)} \cup QueryErrors,
     present_modes : {VkOk(<<"Fifo">>), VkOk(<<"Mailbox", "Fifo">>)} \cup QueryErrors]

InitSupport ==
    /\ pc = "surface_support"
    /\ arg \in QueryAnswers
    /\ ret = <<>>
    /\ Idle

CallSwapChainSupportDetailsNew ==
    /\ pc = "surface_support"
    /\ pc' = "support_queried"
    /\ ret' = SwapChainSupportDetails_new(arg)
    /\ UNCHANGED <<log, scopes, devices, sel, images, frames, image_idx, gpu, arg>>

NextSupport == CallSwapChainSupportDetailsNew

SpecSupport == InitSupport /\ [][NextSupport]_vars

\* C24: SwapChainSupportDetails::new succeeds only when the capabilities, formats
\* and present-modes queries all succeed, and then returns all three answers;
\* otherwise it returns the error of the first failing query in that order, the
\* queries after the failing one are not issued, and no snapshot is returned.
C24_FirstFailurePropagates ==
    pc = "support_queried"
    => /\ ret.result.ok <=> (arg.capabilities.ok /\ arg.formats.ok /\ arg.present_modes.ok)
       /\ ret.result.ok
            => /\ ret.result.v = [capabilities |-> arg.capabilities.v,
                                  formats |-> arg.formats.v,
                                  present_modes |-> arg.present_modes.v]
               /\ ret.issued = <<"capabilities", "formats", "present_modes">>
       /\ ~arg.capabilities.ok
            => ret = [result |-> arg.capabilities, issued |-> <<"capabilities">>]
       /\ (arg.capabilities.ok /\ ~arg.formats.ok)
            => ret = [result |-> arg.formats, issued |-> <<"capabilities", "formats">>]
       /\ (arg.capabilities.ok /\ arg.formats.ok /\ ~arg.present_modes.ok)
            => ret = [result |-> arg.present_modes,
                      issued |-> <<"capabilities", "formats", "present_modes">>]

\* formats and present modes would both fail, with different errors
C24_Witness ==
    /\ pc = "support_queried"
    /\ arg.capabilities.ok
    /\ arg.formats = VkErr("ErrorSurfaceLostKhr")
    /\ arg.present_modes = VkErr("ErrorOutOfHostMemory")
    /\ ret = [result |-> VkErr("ErrorSurfaceLostKhr"), issued |-> <<"capabilities", "formats">>]

\* the setup calls in the trace, in order, each as <<op, kind of handle, index>>;
\* the enumeration counts as the step physical_devices 0, however many devices
SetupOps == {"create", "enumerate", "allocate"}

SetupCalls ==
    LET calls == SelectSeq(log, LAMBDA e : e.op \in SetupOps)
    IN  [k \in 1..Len(calls) |->
            <<calls[k].op, calls[k].h.kind,
              IF calls[k].op = "enumerate" THEN 0 ELSE calls[k].h.i>>]

\* one call per swapchain image, for the images that the swapchain has
PerImage(kind) == [i \in 1..images |-> <<"create", kind, i - 1>>]

\* the whole setup in the order of the claim
SetupOrder ==
    << <<"create", "instance", 0>>, <<"create", "debug_report", 0>>,
       <<"create", "surface", 0>>, <<"enumerate", "physical_devices", 0>>,
       <<"create", "device", 0>>, <<"create", "swapchain", 0>> >>
    \o PerImage("image_view")
    \o << <<"create", "vert_shader_module", 0>>, <<"create", "frag_shader_module", 0>>,
          <<"create", "pipeline_layout", 0>>, <<"create", "render_pass", 0>>,
          <<"create", "pipeline", 0>> >>
    \o PerImage("framebuffer")
    \o << <<"create", "command_pool", 0>>, <<"allocate", "command_buffers", 0>>,
          <<"create", "image_available_semaphore", 0>>,
          <<"create", "render_finished_semaphore", 0>> >>

\* C25: the handles are acquired strictly in the order instance, debug callback,
\* surface, device selection and logical device, swapchain, image views, pipeline
\* (shader modules, layout, render pass, pipeline), framebuffers, command pool and
\* command buffers, semaphores: the setup calls made so far are always the first
\* calls of that order, none left out; nothing is acquired after a failed step;
\* and no frame is drawn before the last step has succeeded.
C25_AcquisitionOrder ==
    /\ Len(SetupCalls) <= Len(SetupOrder)
    /\ \A k \in 1..Len(SetupCalls) : SetupCalls[k] = SetupOrder[k]
    /\ \A i \in 1..Len(log) :
          log[i].op = "create_failed"
          => \A j \in (i + 1)..Len(log) : log[j].op \notin SetupOps \cup FrameOps
    /\ \A j \in 1..Len(log) :
          log[j].op \in FrameOps
          => \E i \in 1..(j - 1) : log[i] = Ev("create", H("render_finished_semaphore", 0))

\* the first acquisition of a frame, after the whole setup for three swapchain images
C25_Witness ==
    /\ pc = "queue_submit"
    /\ images = 3
    /\ frames = 0
    /\ Len(SetupCalls) = Len(SetupOrder)
    /\ Len(SetupOrder) = 21

InstanceOwnedKinds == {"debug_report", "surface", "device"}

DeviceOwned ==
    (DeviceOwnedKinds \ {"device"}) \cup {"vert_shader_module", "frag_shader_module"}

\* the device and the instance that a handle was made from
Owners(h) ==
    IF h.kind \in DeviceOwned THEN {H("device", 0), H("instance", 0)}
    ELSE IF h.kind \in InstanceOwnedKinds THEN {H("instance", 0)}
    ELSE {}

\* the handles that a driver call of the trace is issued on
Uses(e) ==
    CASE e.op = "destroy" -> {e.h} \cup Owners(e.h)
      [] e.op \in {"create", "create_failed"} -> Owners(e.h)
      [] e.op = "enumerate" -> {H("instance", 0)}
      [] e.op = "allocate" -> {H("command_pool", 0), H("device", 0)}
      [] e.op = "acquire" ->
            {H("swapchain", 0), H("image_available_semaphore", 0), H("device", 0)}
      [] e.op = "submit" ->
            {H("device", 0), H("image_available_semaphore", 0),
             H("render_finished_semaphore", 0)}
      [] e.op = "present" ->
            {H("swapchain", 0), H("render_finished_semaphore", 0), H("device", 0)}
      [] e.op \in {"wait_idle", "wait_idle_failed"} -> {H("device", 0)}
      [] OTHER -> {}

\* C26: on every path, normal exit or abort at any step, no driver call (a destroy
\* call included) is issued on a handle that has been destroyed or whose device or
\* instance has been destroyed; the device is destroyed only after every
\* device-owned handle that was created, and the instance only after the device,
\* the surface and the debug callback.
C26_NoUseAfterDestroy ==
    /\ \A i \in 1..Len(log) :
          log[i].op = "destroy"
          => \A j \in (i + 1)..Len(log) : log[i].h \notin Uses(log[j])
    /\ Destroyed(H("device", 0))
          => \A h \in Created :
                h.kind \in DeviceOwned
                => Destroyed(h) /\ DestroyPos(h) < DestroyPos(H("device", 0))
    /\ Destroyed(H("instance", 0))
          => \A h \in Created :
                h.kind \in InstanceOwnedKinds
                => Destroyed(h) /\ DestroyPos(h) < DestroyPos(H("instance", 0))

\* an abort in the second frame: the unwinding ends with the device, then the surface
C26_Witness ==
    /\ pc = "panicked"
    /\ frames = 1
    /\ Len(log) > 2
    /\ log[Len(log)] = Ev("destroy", H("surface", 0))
    /\ log[Len(log) - 1] = Ev("destroy", H("device", 0))
    /\ Destroyed(H("render_finished_semaphore", 0))

\* C27: whatever is done with a wrapper between construction and drop (reads, and
\* stores through deref_mut or borrow_mut), the destroy function is called at drop
\* with the handle that was given to VkOwned::new.
C27_DestroyGetsOriginalValue ==
    pc \in {"owned_dropped", "owned_done"} => log = <<Ev("destroy", arg.a)>>

\* C28: when the enumeration holds a device that passes every selection step, the
\* selection ends by returning a device; a candidate earlier in the order that the
\* fitness predicate would reject does not abort it. Stated, like C8, for the
\* enumerations on which every query of the driver succeeds, and for a passing
\* device that the chain finds when it is evaluated on its own.
C28_RejectedCandidateNeverAborts ==
    [][(/\ pc = "select_physical_device"
        /\ \A d \in 1..Len(devices) : QueriesSucceed(devices[d])
        /\ \E d \in 1..Len(devices) :
              /\ PassesAll(devices[d])
              /\ \A hint \in WindowSizes, overflow_checks \in BOOLEAN :
                    eval_device(devices[d], d, hint, overflow_checks).tag = "found")
       => (sel'.tag = "found" /\ pc' # "panicked")]_vars

\* C29: over any number of consecutive draw_frame calls, each of the two semaphores
\* has at most one signal operation outstanding: the host issues no acquisition
\* (signalling image-available) and no submission (signalling render-finished)
\* while the wait of the frame before on that semaphore has not been carried out.
C29_OneSignalPending ==
    \A s \in Semaphores : gpu.pending[s] <= 1

====
